---- MODULE Spec2Model ----
(***************************************************************************)
(* Model of kuura-health/hetu-validator, src/src/index.ts:                 *)
(* validateFinnishHetu(hetu, {allowTestIds, trimInput}) -> boolean.        *)
(*                                                                         *)
(* A string is a sequence of one-character strings.  A Date is its time    *)
(* value, counted in ticks since 1970-01-01T00:00Z, TicksPerDay ticks to   *)
(* the day (the source counts milliseconds, 86400000 to the day).          *)
(***************************************************************************)
EXTENDS Integers, Sequences, FiniteSets, TLC

VARIABLES hetu, allowTestIds, trimInput, now, pc, result

vars == <<hetu, allowTestIds, trimInput, now, pc, result>>

(***************************************************************************)
(* Bounds of the model.                                                    *)
(***************************************************************************)
\* resolution of the clock within one day
TicksPerDay == 2
\* how many times the clock advances after its start
MaxTicks == 2
\* how many whitespace characters may lead and trail the input
MaxPad == 1

(***************************************************************************)
(* Characters and the String built-ins the function uses.                  *)
(***************************************************************************)
DigitChars == <<"0", "1", "2", "3", "4", "5", "6", "7", "8", "9">>

Digit == {DigitChars[i] : i \in 1..10}

LowerChars ==
  <<"a", "b", "c", "d", "e", "f", "g", "h", "i", "j", "k", "l", "m",
    "n", "o", "p", "q", "r", "s", "t", "u", "v", "w", "x", "y", "z">>

UpperChars ==
  <<"A", "B", "C", "D", "E", "F", "G", "H", "I", "J", "K", "L", "M",
    "N", "O", "P", "Q", "R", "S", "T", "U", "V", "W", "X", "Y", "Z">>

\* white space and line terminators that String.prototype.trim strips
WhiteSpace == {" ", "\t", "\n"}

\* the index of character c in the sequence of characters cs, 0 when absent
IndexOf(cs, c) ==
  IF \E i \in 1..Len(cs) : cs[i] = c
    THEN CHOOSE i \in 1..Len(cs) : cs[i] = c
    ELSE 0

\* String.prototype.includes for a one-character argument
Includes(cs, c) == IndexOf(cs, c) > 0

UpperOf == [c \in {LowerChars[i] : i \in 1..26} |-> UpperChars[IndexOf(LowerChars, c)]]

\* String.prototype.toUpperCase
ToUpperCase(s) ==
  [i \in 1..Len(s) |-> IF s[i] \in DOMAIN UpperOf THEN UpperOf[s[i]] ELSE s[i]]

RECURSIVE TrimStart(_)
TrimStart(s) ==
  IF s # <<>> /\ Head(s) \in WhiteSpace THEN TrimStart(Tail(s)) ELSE s

RECURSIVE TrimEnd(_)
TrimEnd(s) ==
  IF s # <<>> /\ s[Len(s)] \in WhiteSpace
    THEN TrimEnd(SubSeq(s, 1, Len(s) - 1))
    ELSE s

\* String.prototype.trim
Trim(s) == TrimEnd(TrimStart(s))

DigitValue == [c \in Digit |-> IndexOf(DigitChars, c) - 1]

\* parseInt(s, 10) of a string the pattern has matched as digits only
RECURSIVE ParseInt(_)
ParseInt(s) ==
  IF s = <<>> THEN 0
  ELSE 10 * ParseInt(SubSeq(s, 1, Len(s) - 1)) + DigitValue[s[Len(s)]]

(***************************************************************************)
(* The Date built-ins the function uses (ECMAScript time values).          *)
(***************************************************************************)
DayFromYear(y) ==
  365 * (y - 1970) + ((y - 1969) \div 4) - ((y - 1901) \div 100)
    + ((y - 1601) \div 400)

InLeapYear(y) == (y % 4 = 0) /\ ((y % 100 # 0) \/ (y % 400 = 0))

\* days before month m (0..11) in a common year
MonthOffset == <<0, 31, 59, 90, 120, 151, 181, 212, 243, 273, 304, 334>>

\* day within the year on which month m (0..11) of year y starts
MonthStart(y, m) ==
  MonthOffset[m + 1] + (IF m >= 2 /\ InLeapYear(y) THEN 1 ELSE 0)

\* MakeDay: months and days outside their range carry over
MakeDay(year, month, date) ==
  LET ym == year + (month \div 12)
      mn == month % 12
  IN  DayFromYear(ym) + MonthStart(ym, mn) + date - 1

\* Date.UTC(year, month, date); a year 0..99 means 1900 + year
DateUTC(year, month, date) ==
  LET yr == IF year >= 0 /\ year <= 99 THEN 1900 + year ELSE year
  IN  MakeDay(yr, month, date) * TicksPerDay

\* Day(t)
DayOf(t) == t \div TicksPerDay

\* Date.prototype.getUTCFullYear: the year y with DayFromYear(y) <= Day(t)
\* < DayFromYear(y + 1)
GetUTCFullYear(t) ==
  LET d == DayOf(t)
      lo == 1970 + (d \div 366) - 1
  IN  CHOOSE y \in lo..(lo + 3) : DayFromYear(y) <= d /\ d < DayFromYear(y + 1)

\* Date.prototype.getUTCMonth, 0..11
GetUTCMonth(t) ==
  LET y == GetUTCFullYear(t)
      dayInYear == DayOf(t) - DayFromYear(y)
  IN  CHOOSE m \in 0..11 :
        /\ MonthStart(y, m) <= dayInYear
        /\ (m = 11 \/ dayInYear < MonthStart(y, m + 1))

\* Date.prototype.getUTCDate, 1..31
GetUTCDate(t) ==
  LET y == GetUTCFullYear(t)
  IN  DayOf(t) - DayFromYear(y) - MonthStart(y, GetUTCMonth(t)) + 1

(***************************************************************************)
(* validateFinnishHetu.                                                    *)
(***************************************************************************)
FINNISH_HETU_CHECK_CHARS ==
  <<"0", "1", "2", "3", "4", "5", "6", "7", "8", "9", "A", "B", "C", "D",
    "E", "F", "H", "J", "K", "L", "M", "N", "P", "R", "S", "T", "U", "V",
    "W", "X", "Y">>

\* the character class [+\-A-FU-Y]
SeparatorClass ==
  {"+", "-", "A", "B", "C", "D", "E", "F", "U", "V", "W", "X", "Y"}

\* the character class [0-9ABCDEFHJKLMNPRSTUVWXY]
CheckCharClass ==
  Digit \cup {"A", "B", "C", "D", "E", "F", "H", "J", "K", "L", "M", "N",
              "P", "R", "S", "T", "U", "V", "W", "X", "Y"}

\* the pattern without its end anchor
HETU_REGEX_Unanchored(s) ==
  /\ Len(s) >= 11
  /\ \A i \in 1..6 : s[i] \in Digit
  /\ s[7] \in SeparatorClass
  /\ \A i \in 8..10 : s[i] \in Digit
  /\ s[11] \in CheckCharClass

\* HETU_REGEX.exec(s) !== null: anchored at both ends, fixed width
HETU_REGEX(s) ==
  /\ Len(s) = 11
  /\ \A i \in 1..6 : s[i] \in Digit
  /\ s[7] \in SeparatorClass
  /\ \A i \in 8..10 : s[i] \in Digit
  /\ s[11] \in CheckCharClass

\* the named groups of a match
Groups(s) ==
  [day |-> SubSeq(s, 1, 2), month |-> SubSeq(s, 3, 4), year |-> SubSeq(s, 5, 6),
   separator |-> s[7], individual |-> SubSeq(s, 8, 10), checkChar |-> s[11]]

\* normalization that strips leading white space only
Normalized_TrimStart(h, trim) == ToUpperCase(IF trim THEN TrimStart(h) ELSE h)

\* normalization that keeps the case of the letters
Normalized_KeepCase(h, trim) == IF trim THEN Trim(h) ELSE h

\* (trimInput ? hetu.trim() : hetu).toUpperCase()
Normalized(h, trim) == ToUpperCase(IF trim THEN Trim(h) ELSE h)

\* the real range taken to start at 1
IsRealIdRange_FromOne(individualNum) == individualNum >= 1 /\ individualNum <= 899

IsRealIdRange(individualNum) == individualNum >= 2 /\ individualNum <= 899

\* the range check on the individual number
InvalidIndividualRange(individualNum) == individualNum < 0 \/ individualNum > 999

\* the test-ID check with the flag inverted
RejectedTestId_Inverted(allow, individualNum) == allow /\ ~IsRealIdRange(individualNum)

\* the test-ID check
RejectedTestId(allow, individualNum) == ~allow /\ ~IsRealIdRange(individualNum)

\* the century lookup with U missing from the separators of the 1900s
Century_WithoutU(separator) ==
  IF separator = "+" THEN 1800
  ELSE IF Includes(<<"-", "Y", "X", "W", "V">>, separator) THEN 1900
  ELSE IF Includes(<<"A", "B", "C", "D", "E", "F">>, separator) THEN 2000
  ELSE 0

\* the century of a separator, 0 for the final else (return false)
Century(separator) ==
  IF separator = "+" THEN 1800
  ELSE IF Includes(<<"-", "Y", "X", "W", "V", "U">>, separator) THEN 1900
  ELSE IF Includes(<<"A", "B", "C", "D", "E", "F">>, separator) THEN 2000
  ELSE 0

\* new Date(Date.UTC(fullYear, monthNum - 1, dayNum))
BirthDateUtc(fullYear, monthNum, dayNum) == DateUTC(fullYear, monthNum - 1, dayNum)

\* the round trip compared on the year alone
DateCorrected_YearOnly(fullYear, monthNum, dayNum) ==
  GetUTCFullYear(DateUTC(fullYear, monthNum - 1, dayNum)) # fullYear

\* the Date object corrected the date
DateCorrected(fullYear, monthNum, dayNum) ==
  LET birthDateUtc == BirthDateUtc(fullYear, monthNum, dayNum)
  IN  \/ GetUTCFullYear(birthDateUtc) # fullYear
      \/ GetUTCMonth(birthDateUtc) # monthNum - 1
      \/ GetUTCDate(birthDateUtc) # dayNum

\* today at 00:00 UTC
TodayUtc(clock) ==
  DateUTC(GetUTCFullYear(clock), GetUTCMonth(clock), GetUTCDate(clock))

\* the comparison with today included
InFuture_OrToday(birthDateUtc, clock) ==
  birthDateUtc >= DateUTC(GetUTCFullYear(clock), GetUTCMonth(clock), GetUTCDate(clock))

\* the comparison reversed
InFuture_Reversed(birthDateUtc, clock) ==
  birthDateUtc < DateUTC(GetUTCFullYear(clock), GetUTCMonth(clock), GetUTCDate(clock))

\* birthDateUtc > todayUtc
InFuture(birthDateUtc, clock) == birthDateUtc > TodayUtc(clock)

\* the remainder taken modulo 30
ExpectedCheckChar_Mod30(g) ==
  FINNISH_HETU_CHECK_CHARS[(ParseInt(g.day \o g.month \o g.year \o g.individual) % 30) + 1]

\* FINNISH_HETU_CHECK_CHARS[parseInt(day + month + year + individual, 10) % 31]
ExpectedCheckChar(g) ==
  LET numericString == g.day \o g.month \o g.year \o g.individual
      remainder == ParseInt(numericString) % 31
  IN  FINNISH_HETU_CHECK_CHARS[remainder + 1]

\* the function, reading the clock as `clock`
validateFinnishHetu(h, allow, trim, clock) ==
  IF h = <<>> THEN FALSE
  ELSE
    LET normalized == Normalized(h, trim) IN
    IF ~HETU_REGEX(normalized) THEN FALSE
    ELSE
      LET g == Groups(normalized)
          dayNum == ParseInt(g.day)
          monthNum == ParseInt(g.month)
          yearShort == ParseInt(g.year)
          individualNum == ParseInt(g.individual)
          century == Century(g.separator)
          fullYear == century + yearShort
      IN  IF InvalidIndividualRange(individualNum) THEN FALSE
          ELSE IF RejectedTestId(allow, individualNum) THEN FALSE
          ELSE IF century = 0 THEN FALSE
          ELSE IF DateCorrected(fullYear, monthNum, dayNum) THEN FALSE
          ELSE IF InFuture(BirthDateUtc(fullYear, monthNum, dayNum), clock) THEN FALSE
          ELSE g.checkChar = ExpectedCheckChar(g)

(***************************************************************************)
(* The callers' inputs: codes of the test suite and of the calendar days   *)
(* around the clock, each changed in at most one place.                    *)
(***************************************************************************)
\* the decimal digits of n, zero-padded to the given width
RECURSIVE Digits(_, _)
Digits(n, width) ==
  IF width = 0 THEN <<>>
  ELSE Digits(n \div 10, width - 1) \o <<DigitChars[(n % 10) + 1]>>

\* the code DDMMYY, separator, NNN, check character
Code(ddmmyy, separator, individual, checkChar) ==
  Digits(ddmmyy, 6) \o <<separator>> \o Digits(individual, 3) \o <<checkChar>>

Seeds ==
  { Code(131052, "-", 308, "T"), Code(10100, "A", 123, "D"),
    Code(10190, "+", 123, "M"), Code(10105, "B", 123, "P"),
    Code(290200, "A", 123, "9"), Code(10101, "-", 900, "R"),
    Code(10199, "A", 123, "Y"),
    Code(280224, "A", 123, "U"), Code(290224, "A", 123, "F"),
    Code(10324, "A", 123, "7"), Code(311299, "F", 2, "9"),
    Code(301299, "F", 899, "K"), Code(290296, "C", 123, "2"),
    Code(290224, "A", 1, "J"), Code(280224, "A", 0, "V"),
    Code(290224, "Y", 999, "R"),
    Code(300290, "-", 123, "5"), Code(290290, "-", 123, "H"),
    Code(310424, "A", 123, "C"), Code(190, "-", 123, "0"),
    Code(320190, "-", 123, "M"), Code(11390, "-", 123, "A"),
    Code(10090, "-", 123, "U") }

\* n white-space characters
Pad(n) == [i \in 1..n |-> IF i % 3 = 1 THEN " " ELSE IF i % 3 = 2 THEN "\t" ELSE "\n"]

\* s with the characters from position `at` on overwritten by text
Overwrite(s, at, text) ==
  [i \in 1..Len(s) |->
     IF i >= at /\ i < at + Len(text) THEN text[i - at + 1] ELSE s[i]]

LowerOf == [c \in {UpperChars[i] : i \in 1..26} |-> LowerChars[IndexOf(UpperChars, c)]]

\* String.prototype.toLowerCase
ToLowerCase(s) ==
  [i \in 1..Len(s) |-> IF s[i] \in DOMAIN LowerOf THEN LowerOf[s[i]] ELSE s[i]]

Overwrites ==
  {[at |-> 1, text |-> t] : t \in {<<"A", "B">>, <<"2", "9", "0", "2">>}}
  \cup {[at |-> 3, text |-> <<"A", "B">>]}
  \cup {[at |-> 7, text |-> <<c>>] :
          c \in SeparatorClass \cup {"a", "y", "G", "/", " "}}
  \cup {[at |-> 8, text |-> t] :
          t \in {<<"0", "0", "0">>, <<"0", "0", "2">>, <<"8", "9", "9">>,
                 <<"9", "0", "0">>, <<"A", "0", "8">>}}
  \cup {[at |-> 11, text |-> <<c>>] : c \in {"G", "0", "t", "I"}}

\* the inputs derived from one seed
Variants(seed) ==
  {seed, ToLowerCase(seed), <<>>, SubSeq(seed, 1, 10), seed \o <<seed[11]>>}
  \cup {Overwrite(seed, o.at, o.text) : o \in Overwrites}
  \cup {Pad(n) \o seed \o Pad(m) : n, m \in 0..MaxPad}
  \cup {Pad(n) \o ToLowerCase(seed) \o Pad(n) : n \in 0..MaxPad}
  \cup {Pad(n) : n \in 0..MaxPad}

Inputs == UNION {Variants(seed) : seed \in Seeds}

(***************************************************************************)
(* The clock: it starts one tick before midnight of a day that codes can   *)
(* name, early in the range of birth dates and at its end.                 *)
(***************************************************************************)
StartTimes == {DateUTC(2024, 1, 29) - 1, DateUTC(2099, 11, 31) - 1}

(***************************************************************************)
(* The state machine.                                                      *)
(***************************************************************************)
\* a caller holds a string and options; the function has not run yet
Init ==
  /\ hetu \in Inputs
  /\ allowTestIds \in BOOLEAN
  /\ trimInput \in BOOLEAN
  /\ now \in StartTimes
  /\ pc = "idle"
  /\ result = FALSE

\* the caller validates the string; the call reads the clock once
Validate ==
  /\ pc = "idle"
  /\ result' = validateFinnishHetu(hetu, allowTestIds, trimInput, now)
  /\ pc' = "returned"
  /\ UNCHANGED <<hetu, allowTestIds, trimInput, now>>

\* the clock advances by one tick and the caller repeats the call
Revalidate ==
  /\ pc = "returned"
  /\ \E s \in StartTimes : s <= now /\ now < s + MaxTicks
  /\ now' = now + 1
  /\ result' = validateFinnishHetu(hetu, allowTestIds, trimInput, now')
  /\ UNCHANGED <<hetu, allowTestIds, trimInput, pc>>

Next == Validate \/ Revalidate

Spec == Init /\ [][Next]_vars

(***************************************************************************)
(* What the specification says of a code, stated without the function.     *)
(***************************************************************************)
SpecSeparators == {"+", "-", "A", "B", "C", "D", "E", "F", "U", "V", "W", "X", "Y"}

SpecAlphabet ==
  <<"0", "1", "2", "3", "4", "5", "6", "7", "8", "9", "A", "B", "C", "D",
    "E", "F", "H", "J", "K", "L", "M", "N", "P", "R", "S", "T", "U", "V",
    "W", "X", "Y">>

SpecCheckChars == {SpecAlphabet[i] : i \in 1..Len(SpecAlphabet)}

\* the input as the stages see it: trimmed when trimInput, then uppercased
SpecNormal(h, trim) == ToUpperCase(IF trim THEN Trim(h) ELSE h)

\* 2 + 2 + 2 digits, one separator, 3 digits, one check character
SpecPattern(s) ==
  /\ Len(s) = 11
  /\ \A i \in (1..6) \cup (8..10) : s[i] \in Digit
  /\ s[7] \in SpecSeparators
  /\ s[11] \in SpecCheckChars

SpecDay(s) == 10 * DigitValue[s[1]] + DigitValue[s[2]]
SpecMonth(s) == 10 * DigitValue[s[3]] + DigitValue[s[4]]
SpecYear2(s) == 10 * DigitValue[s[5]] + DigitValue[s[6]]
SpecSequence(s) == 100 * DigitValue[s[8]] + 10 * DigitValue[s[9]] + DigitValue[s[10]]

SpecCentury(sep) ==
  IF sep = "+" THEN 1800
  ELSE IF sep \in {"-", "Y", "X", "W", "V", "U"} THEN 1900
  ELSE 2000

SpecFullYear(s) == SpecCentury(s[7]) + SpecYear2(s)

SpecLeap(y) == y % 4 = 0 /\ (y % 100 # 0 \/ y % 400 = 0)

SpecDaysInMonth(y, m) ==
  IF m = 2 THEN (IF SpecLeap(y) THEN 29 ELSE 28)
  ELSE IF m \in {4, 6, 9, 11} THEN 30
  ELSE 31

\* (day, month, full year) is a date of the Gregorian calendar
SpecRealDate(s) ==
  /\ SpecMonth(s) \in 1..12
  /\ SpecDay(s) >= 1
  /\ SpecDay(s) <= SpecDaysInMonth(SpecFullYear(s), SpecMonth(s))

\* year, month and day as one number that orders dates
SpecDateKey(y, m, d) == (y * 100 + m) * 100 + d

\* the current UTC date, its time of day dropped
SpecTodayKey(clock) ==
  SpecDateKey(GetUTCFullYear(clock), GetUTCMonth(clock) + 1, GetUTCDate(clock))

SpecBirthKey(s) == SpecDateKey(SpecFullYear(s), SpecMonth(s), SpecDay(s))

\* the birth date is strictly later than today
SpecFuture(s, clock) == SpecBirthKey(s) > SpecTodayKey(clock)

\* the sequence number is of the test/artificial category
SpecTestCategory(s) == SpecSequence(s) \in {0, 1} \cup (900..999)

\* the 9-digit number day, month, year, sequence
SpecNumber(s) ==
  ((SpecDay(s) * 100 + SpecMonth(s)) * 100 + SpecYear2(s)) * 1000 + SpecSequence(s)

SpecCheckChar(s) == SpecAlphabet[(SpecNumber(s) % 31) + 1]

\* every stage but the checksum lets the code pass
SpecPassesBeforeChecksum(s, allow, clock) ==
  /\ SpecPattern(s)
  /\ allow \/ ~SpecTestCategory(s)
  /\ SpecRealDate(s)
  /\ ~SpecFuture(s, clock)

\* every stage lets the code pass
SpecAccepts(s, allow, clock) ==
  /\ SpecPassesBeforeChecksum(s, allow, clock)
  /\ s[11] = SpecCheckChar(s)

\* the input of the state as the stages see it
Normal == SpecNormal(hetu, trimInput)

Returned == pc = "returned"

\* the normalized code with one field replaced
WithCheckChar(s, c) == Overwrite(s, 11, <<c>>)
WithSeparator(s, sep) == Overwrite(s, 7, <<sep>>)
WithSequence(s, n) == Overwrite(s, 8, Digits(n, 3))
WithYear2(s, yy) == Overwrite(s, 5, Digits(yy, 2))

(***************************************************************************)
(* The claims.                                                             *)
(***************************************************************************)

\* C1: whatever the options, an input whose normalized form (trimmed when
\* trimInput, then uppercased) does not match the 11-character pattern is
\* rejected: the call returns false.
C1_NonMatchingRejected ==
  (Returned /\ ~SpecPattern(Normal)) => result = FALSE

\* a call has rejected an 11-character input whose only flaw is the
\* separator G
C1_Witness ==
  /\ Returned
  /\ Len(Normal) = 11
  /\ Normal[7] = "G"
  /\ \A i \in (1..6) \cup (8..10) : Normal[i] \in Digit
  /\ result = FALSE

\* C2: for a code that passes the structural, category, date and future-date
\* stages, exactly one of the 31 check characters is accepted, the one at
\* index (day month year sequence as a 9-digit number) mod 31 of the
\* alphabet, and that character is the same under every separator.
C2_ExactlyOneCheckChar ==
  (Returned /\ SpecPassesBeforeChecksum(Normal, allowTestIds, now)) =>
     /\ {c \in SpecCheckChars :
           validateFinnishHetu(WithCheckChar(Normal, c), allowTestIds, trimInput, now)}
          = {SpecCheckChar(Normal)}
     /\ result = (Normal[11] = SpecCheckChar(Normal))
     /\ hetu = Normal =>
         \A sep \in SpecSeparators : \A c \in {SpecCheckChar(Normal), Normal[11]} :
           LET code == WithSeparator(WithCheckChar(Normal, c), sep)
           IN  validateFinnishHetu(code, allowTestIds, trimInput, now)
                 = (/\ SpecPassesBeforeChecksum(code, allowTestIds, now)
                    /\ c = SpecCheckChar(Normal))

\* a call has accepted a code, and one has rejected a code for its check
\* character alone
C2_Witness ==
  /\ Returned
  /\ SpecPassesBeforeChecksum(Normal, allowTestIds, now)
  /\ Normal[11] # SpecCheckChar(Normal)
  /\ result = FALSE
  /\ validateFinnishHetu(WithCheckChar(Normal, SpecCheckChar(Normal)),
                         allowTestIds, trimInput, now)

\* the test suite's code for 29 February 2000, the state in which the sweeps
\* over all sequence numbers and all years are made
LeapDaySeed == Code(290200, "A", 123, "9")

\* sequence numbers around the borders of the categories
SequenceSamples == {0, 1, 2, 450, 899, 900, 999}

\* C3: the sequence number 2..899 is never rejected for its category,
\* whatever allowTestIds is; 0, 1 and 900..999 give false when allowTestIds
\* is false and pass the category stage when it is true; no sequence number
\* 0..999 is rejected as out of range.
C3_SequenceCategories ==
  (Returned /\ SpecPattern(Normal)) =>
   /\ hetu = LeapDaySeed =>
        \A n \in 0..999 :
          /\ ~InvalidIndividualRange(n)
          /\ ~RejectedTestId(TRUE, n)
          /\ RejectedTestId(FALSE, n) = (n \in {0, 1} \cup (900..999))
   /\ \A n \in (IF hetu = Normal THEN SequenceSamples ELSE {}) \cup {SpecSequence(Normal)} :
       LET s == WithSequence(WithCheckChar(Normal, "0"), n)
           code == WithCheckChar(s, SpecCheckChar(s))
       IN  /\ ~InvalidIndividualRange(ParseInt(Groups(code).individual))
           /\ validateFinnishHetu(code, TRUE, trimInput, now)
                = (SpecRealDate(code) /\ ~SpecFuture(code, now))
           /\ validateFinnishHetu(code, FALSE, trimInput, now)
                = (n \in 2..899 /\ SpecRealDate(code) /\ ~SpecFuture(code, now))

\* a call with allowTestIds false has rejected a code of the test category
\* whose date and check character are right
C3_Witness ==
  /\ Returned
  /\ ~allowTestIds
  /\ SpecAccepts(Normal, TRUE, now)
  /\ SpecSequence(Normal) = 900
  /\ result = FALSE

\* C4: a code whose day, month and full year are no date of the Gregorian
\* calendar is rejected under all options and with any check character; a
\* code for 29 February that passes the other stages is accepted iff its
\* full year is divisible by 4 and (not by 100, or by 400).
C4_OnlyRealDates ==
  (Returned /\ SpecPattern(Normal)) =>
     /\ ~SpecRealDate(Normal) =>
          /\ result = FALSE
          /\ \A allow \in BOOLEAN : \A c \in SpecCheckChars :
               ~validateFinnishHetu(WithCheckChar(Normal, c), allow, trimInput, now)
     /\ (/\ SpecDay(Normal) = 29 /\ SpecMonth(Normal) = 2
         /\ allowTestIds \/ ~SpecTestCategory(Normal)
         /\ ~SpecFuture(Normal, now)
         /\ Normal[11] = SpecCheckChar(Normal)) =>
          result = SpecLeap(SpecFullYear(Normal))
     /\ (SpecDay(Normal) = 29 /\ SpecMonth(Normal) = 2 /\ hetu = LeapDaySeed) =>
          \A yy \in 0..99 : \A sep \in {"+", "-", "A"} :
            LET s == WithSeparator(WithYear2(Normal, yy), sep)
                code == WithCheckChar(s, SpecCheckChar(s))
                passesOthers ==
                  /\ allowTestIds \/ ~SpecTestCategory(code)
                  /\ ~SpecFuture(code, now)
            IN  passesOthers =>
                  (validateFinnishHetu(code, allowTestIds, trimInput, now)
                     = SpecLeap(SpecFullYear(code)))

\* a call has accepted a code for 29 February 2096 and the clock stands
\* after every year a code can name
C4_Witness ==
  /\ Returned
  /\ SpecPattern(Normal)
  /\ SpecDay(Normal) = 29 /\ SpecMonth(Normal) = 2 /\ SpecFullYear(Normal) = 2096
  /\ GetUTCFullYear(now) = 2099
  /\ result = TRUE

\* C5: a code whose birth date is strictly later than today (the current UTC
\* date at midnight) is rejected whatever its check character and the
\* options; one whose birth date is today or earlier and that passes the
\* other stages is accepted.
C5_FutureRejected ==
  (Returned /\ SpecPattern(Normal) /\ SpecRealDate(Normal)) =>
     /\ SpecFuture(Normal, now) =>
          /\ result = FALSE
          /\ \A allow \in BOOLEAN : \A c \in SpecCheckChars :
               ~validateFinnishHetu(WithCheckChar(Normal, c), allow, trimInput, now)
     /\ (~SpecFuture(Normal, now)
           /\ (allowTestIds \/ ~SpecTestCategory(Normal))
           /\ Normal[11] = SpecCheckChar(Normal)) => result = TRUE

\* a call made after midnight has accepted a code whose birth date is the
\* day of the clock
C5_Witness ==
  /\ Returned
  /\ SpecPattern(Normal)
  /\ SpecBirthKey(Normal) = SpecTodayKey(now)
  /\ now % TicksPerDay # 0
  /\ result = TRUE

\* C6: whatever the input, trimInput and the clock, if the call with
\* allowTestIds false returns true then the call with allowTestIds true
\* returns true.
C6_MonotonicLeniency ==
  Returned =>
    /\ validateFinnishHetu(hetu, FALSE, trimInput, now)
         => validateFinnishHetu(hetu, TRUE, trimInput, now)
    /\ (~allowTestIds /\ result) => validateFinnishHetu(hetu, TRUE, trimInput, now)

\* a call with allowTestIds false has accepted a code
C6_Witness ==
  /\ Returned
  /\ ~allowTestIds
  /\ result = TRUE
  /\ validateFinnishHetu(hetu, TRUE, trimInput, now)

\* C7: with the default options, the call on s and the call on trim(s)
\* return the same, for every s, blank and empty s included.
C7_TrimIdempotent ==
  (Returned /\ ~allowTestIds /\ trimInput) =>
     /\ result = validateFinnishHetu(Trim(hetu), FALSE, TRUE, now)
     /\ \A n, m \in 0..MaxPad :
          validateFinnishHetu(Pad(n) \o hetu \o Pad(m), FALSE, TRUE, now)
            = validateFinnishHetu(Trim(hetu), FALSE, TRUE, now)

\* a call with the default options has accepted an input with white space
\* on both sides
C7_Witness ==
  /\ Returned
  /\ ~allowTestIds /\ trimInput
  /\ Len(hetu) > 11
  /\ hetu[1] \in WhiteSpace /\ hetu[Len(hetu)] \in WhiteSpace
  /\ result = TRUE

\* the positions of s that hold a letter
LetterPositions(s) ==
  {i \in 1..Len(s) : s[i] \in DOMAIN UpperOf \/ s[i] \in DOMAIN LowerOf}

\* s with the letters at the positions ps in lower case, or in upper case
Lowered(s, ps) ==
  [i \in 1..Len(s) |-> IF i \in ps /\ s[i] \in DOMAIN LowerOf THEN LowerOf[s[i]] ELSE s[i]]
Raised(s, ps) ==
  [i \in 1..Len(s) |-> IF i \in ps /\ s[i] \in DOMAIN UpperOf THEN UpperOf[s[i]] ELSE s[i]]

\* C8: replacing the separator letter, the check character letter or both
\* by the lower-case or the upper-case variant leaves the result as it is,
\* under every value of the options.
C8_CaseInsensitive ==
  Returned =>
    \A ps \in SUBSET LetterPositions(hetu) :
      /\ validateFinnishHetu(Lowered(hetu, ps), allowTestIds, trimInput, now) = result
      /\ validateFinnishHetu(Raised(hetu, ps), allowTestIds, trimInput, now) = result

\* a call has accepted a code whose separator and check character are
\* lower-case letters
C8_Witness ==
  /\ Returned
  /\ Len(hetu) = 11
  /\ hetu[7] \in DOMAIN UpperOf
  /\ hetu[11] \in DOMAIN UpperOf
  /\ result = TRUE

\* C9: the century is a total lookup over the separators of the pattern:
\* + gives 1800, - Y X W V U give 1900, A..F give 2000; for a code that
\* matches the pattern the century step never takes its final else, so the
\* code fares as the other stages decide.
C9_CenturyTotal ==
  (Returned /\ SpecPattern(Normal)) =>
     /\ Century(Groups(Normal).separator) = SpecCentury(Normal[7])
     /\ result = SpecAccepts(Normal, allowTestIds, now)
     /\ \A sep \in SpecSeparators :
          /\ Century(sep) = SpecCentury(sep)
          /\ Century(sep) # 0
          /\ hetu = Normal =>
               validateFinnishHetu(WithSeparator(Normal, sep), allowTestIds, trimInput, now)
                 = SpecAccepts(WithSeparator(Normal, sep), allowTestIds, now)

\* a call has accepted a code of the 1900s written with the separator U
C9_Witness ==
  /\ Returned
  /\ SpecPattern(Normal)
  /\ Normal[7] = "U"
  /\ SpecFullYear(Normal) = 1952
  /\ result = TRUE

\* C10: acceptance is monotone in the clock: once a call returns true, the
\* same call made at a later time returns true; as the clock advances a
\* result changes from false to true only.
C10_MonotoneInClock ==
  [][(Returned /\ result = TRUE /\ now' >= now
        /\ hetu' = hetu /\ allowTestIds' = allowTestIds /\ trimInput' = trimInput)
       => result' = TRUE]_vars

\* a repeated call has accepted a code that the call at the start of the
\* clock rejected, its birth date being the day the clock has reached
C10_Witness ==
  /\ Returned
  /\ result = TRUE
  /\ \E s \in StartTimes :
       /\ s < now /\ now <= s + MaxTicks
       /\ ~validateFinnishHetu(hetu, allowTestIds, trimInput, s)

====
